---- MODULE Spec2Model ----
(***************************************************************************)
(* Model of the multi QR scanner (src/src/App.tsx, src/src/GuideFrame.tsx). *)
(*                                                                         *)
(* The App component keeps its state in React state cells.  Every render   *)
(* creates new closures: addQRCode (deps [recentScans]) and scanQRCodes    *)
(* (deps [isInitialized, isScanning, addQRCode, guideState, lastScanTime,  *)
(* scanInterval, focusGuideOnly, recentScans]) read the state values of    *)
(* the render that created them, while functional updaters                 *)
(* (setX(prev => ...)) read the latest state.  A scanQRCodes invocation    *)
(* reschedules ITSELF (the same closure) through setTimeout and            *)
(* requestAnimationFrame, and the effect at App.tsx:596-600 calls the new  *)
(* scanQRCodes whenever its identity changes.  The model therefore keeps   *)
(* the committed state, and a list of in-flight scanQRCodes invocations    *)
(* ("chains"), each with the closure it was created in.                    *)
(*                                                                         *)
(* One action is one macrotask of the browser's event loop (a click, the   *)
(* continuation after the awaited decode, a timer, an animation frame),    *)
(* followed by React's commit of the batched state updates and the effects *)
(* of that commit.                                                         *)
(***************************************************************************)
EXTENDS Integers, Sequences, FiniteSets, TLC

VARIABLES
    now,              \* Date.now(), in ms
    isInitialized,    \* useState, App.tsx:34
    isScanning,       \* useState, App.tsx:31
    uniqueResults,    \* useState Map, App.tsx:32, as the sequence of its entries in insertion order
    recentScans,      \* useState Map, App.tsx:40, as the sequence of its entries in insertion order
    guideState,       \* useState, App.tsx:36
    lastScanTime,     \* useState, App.tsx:37
    scanInterval,     \* useState, App.tsx:38
    focusGuideOnly,   \* useState, App.tsx:39
    videoReady,       \* video.readyState = HAVE_ENOUGH_DATA with a non-empty frame
    chains,           \* in-flight scanQRCodes invocations, oldest first
    timers,           \* pending setTimeout callbacks of App.tsx:395, 400, 436
    nextCleanup,      \* due time of the setInterval callback of App.tsx:558
    clicks,           \* the number of clicks on each button so far
    last              \* what the last step did (observation only, never read by an action)

vars == <<now, isInitialized, isScanning, uniqueResults, recentScans, guideState,
          lastScanTime, scanInterval, focusGuideOnly, videoReady, chains, timers,
          nextCleanup, clicks, last>>

(***************************************************************************)
(* Program constants (App.tsx:7-17).  The two capacities are scaled down   *)
(* so that the model reaches them.                                         *)
(***************************************************************************)
SCAN_COOLDOWN_DURATION == 3000
SCAN_HISTORY_TTL == 10000
MAX_RECENT_SCANS == 3
MAX_UNIQUE_RESULTS == 2
MEMORY_CLEANUP_INTERVAL == 30000
SCAN_INTERVAL_MIN == 100
SCAN_INTERVAL_MAX == 500
SCAN_INTERVAL_DEFAULT == 200
READBARCODES_TIMEOUT == 1000
MAX_NUMBER_OF_SYMBOLS == 2
SUCCESS_DISPLAY == 300
ERROR_DISPLAY == 1000
GRACE_PERIOD == 2000
OUT_GUIDE_COOLDOWN == 1000

(***************************************************************************)
(* Bounds of the model.                                                    *)
(***************************************************************************)
PageLoadTime == 100000   \* Date.now() when the component is mounted
MaxStarts == 1           \* clicks on the start button
MaxStops == 1            \* clicks on the stop button
MaxResets == 1           \* clicks on the reset button
HandleWrap == 2          \* requestAnimationFrame's identifiers are kept modulo this
MaxElapsed == 3000       \* Spec: the clock stops this long after PageLoadTime
MaxChains == 3           \* Spec: in-flight scanQRCodes invocations
CapacityElapsed == 1000  \* CapacitySpec: the clock stops this long after PageLoadTime
CapacityChains == 3      \* CapacitySpec: in-flight scanQRCodes invocations
ResetElapsed == 1000     \* ResetSpec: the clock stops this long after PageLoadTime
ResetChains == 3         \* ResetSpec: in-flight scanQRCodes invocations
GuideElapsed == 1000     \* GuideSpec: the clock stops this long after PageLoadTime
GuideChains == 3         \* GuideSpec: in-flight scanQRCodes invocations
FrameElapsed == 1000     \* FrameSpec: the clock stops this long after PageLoadTime
FrameChains == 3         \* FrameSpec: in-flight scanQRCodes invocations
FaultElapsed == 1000     \* FaultSpec: the clock stops this long after PageLoadTime
FaultChains == 3         \* FaultSpec: in-flight scanQRCodes invocations
AdaptElapsed == 2000     \* AdaptSpec: the clock stops this long after PageLoadTime
AdaptChains == 6         \* AdaptSpec: in-flight scanQRCodes invocations at the start
AdaptLateChains == 3     \* AdaptSpec: in-flight scanQRCodes invocations later
FingerprintElapsed == 1000  \* FingerprintSpec: the clock stops this long after PageLoadTime
FingerprintChains == 3   \* FingerprintSpec: in-flight scanQRCodes invocations
HistoryElapsed == 1000   \* HistorySpec: the clock stops this long after PageLoadTime
HistoryChains == 4       \* HistorySpec: in-flight scanQRCodes invocations
CleanupElapsed == 30000  \* CleanupSpec: the clock stops this long after PageLoadTime
CleanupChains == 3       \* CleanupSpec: in-flight scanQRCodes invocations
CanvasElapsed == 1000    \* CanvasSpec: the clock stops this long after PageLoadTime
CanvasChains == 3        \* CanvasSpec: in-flight scanQRCodes invocations
DisplayElapsed == 1000   \* DisplaySpec: the clock stops this long after PageLoadTime
DisplayChains == 4       \* DisplaySpec: in-flight scanQRCodes invocations
ExpiryElapsed == 30000   \* ExpirySpec: the clock stops this long after PageLoadTime
ExpiryChains == 3        \* ExpirySpec: in-flight scanQRCodes invocations

(***************************************************************************)
(* Texts are sequences of UTF-16 code units; the fingerprint of            *)
(* App.tsx:181 is computed as the code computes it.                        *)
(***************************************************************************)
IsUnreserved(c) ==
    \/ c \in 65..90 \/ c \in 97..122 \/ c \in 48..57
    \/ c \in {45, 95, 46, 33, 126, 42, 39, 40, 41}

HexDigit(d) == IF d < 10 THEN 48 + d ELSE 55 + d

PercentByte(b) == <<37, HexDigit(b \div 16), HexDigit(b % 16)>>

\* The UTF-8 bytes of code point cp.
Utf8(cp) ==
    IF cp < 128 THEN <<cp>>
    ELSE IF cp < 2048 THEN <<192 + (cp \div 64), 128 + (cp % 64)>>
    ELSE IF cp < 65536 THEN
        <<224 + (cp \div 4096), 128 + ((cp \div 64) % 64), 128 + (cp % 64)>>
    ELSE <<240 + (cp \div 262144), 128 + ((cp \div 4096) % 64),
           128 + ((cp \div 64) % 64), 128 + (cp % 64)>>

RECURSIVE PercentAll(_)
PercentAll(bytes) ==
    IF bytes = <<>> THEN <<>> ELSE PercentByte(Head(bytes)) \o PercentAll(Tail(bytes))

IsHighSurrogate(c) == c \in 55296..56319
IsLowSurrogate(c) == c \in 56320..57343

\* encodeURIComponent throws URIError on a lone surrogate.
RECURSIVE UriThrows(_)
UriThrows(text) ==
    IF text = <<>> THEN FALSE
    ELSE IF IsLowSurrogate(Head(text)) THEN TRUE
    ELSE IF IsHighSurrogate(Head(text)) THEN
        IF Len(text) >= 2 /\ IsLowSurrogate(text[2])
        THEN UriThrows(Tail(Tail(text))) ELSE TRUE
    ELSE UriThrows(Tail(text))

RECURSIVE EncodeURIComponent(_)
EncodeURIComponent(text) ==
    IF text = <<>> THEN <<>>
    ELSE LET c == Head(text) IN
        IF IsUnreserved(c) THEN <<c>> \o EncodeURIComponent(Tail(text))
        ELSE IF IsHighSurrogate(c) /\ Len(text) >= 2 /\ IsLowSurrogate(text[2]) THEN
            PercentAll(Utf8(65536 + (c - 55296) * 1024 + (text[2] - 56320)))
                \o EncodeURIComponent(Tail(Tail(text)))
        ELSE PercentAll(Utf8(c)) \o EncodeURIComponent(Tail(text))

\* btoa: base64 of a string of bytes; a symbol is its index 0..63 in the
\* base64 alphabet, and 64 stands for the padding character '='.
PAD == 64

RECURSIVE Btoa(_)
Btoa(bytes) ==
    IF bytes = <<>> THEN <<>>
    ELSE IF Len(bytes) = 1 THEN
        <<bytes[1] \div 4, (bytes[1] % 4) * 16, PAD, PAD>>
    ELSE IF Len(bytes) = 2 THEN
        <<bytes[1] \div 4, (bytes[1] % 4) * 16 + (bytes[2] \div 16),
          (bytes[2] % 16) * 4, PAD>>
    ELSE
        <<bytes[1] \div 4, (bytes[1] % 4) * 16 + (bytes[2] \div 16),
          (bytes[2] % 16) * 4 + (bytes[3] \div 64), bytes[3] % 64>>
            \o Btoa(SubSeq(bytes, 4, Len(bytes)))

\* .replace(/=/g, '')
StripPadding(s) == SelectSeq(s, LAMBDA x : x # PAD)

\* const hash = btoa(encodeURIComponent(text)).replace(/=/g, '')
Fingerprint(text) == StripPadding(Btoa(EncodeURIComponent(text)))

(***************************************************************************)
(* A JavaScript Map as the sequence of its entries [key, value] in         *)
(* insertion order: set on a present key keeps the entry's position.       *)
(***************************************************************************)
MapHas(m, k) == \E i \in 1..Len(m) : m[i].key = k

MapGet(m, k) == m[CHOOSE i \in 1..Len(m) : m[i].key = k].value

MapSet(m, k, v) ==
    IF MapHas(m, k)
    THEN [i \in 1..Len(m) |-> IF m[i].key = k THEN [key |-> k, value |-> v] ELSE m[i]]
    ELSE Append(m, [key |-> k, value |-> v])

MapDelete(m, k) == SelectSeq(m, LAMBDA e : e.key # k)

MapKeys(m) == {m[i].key : i \in 1..Len(m)}

\* Array.prototype.sort with a numeric comparator (a, b) => Rank(a) - Rank(b)
\* is stable.  ranked is a sequence of [rank, entry]: the entries in ascending
\* rank, entries of equal rank keeping their order.
RECURSIVE StableInsert(_, _)
StableInsert(sorted, p) ==
    IF sorted = <<>> THEN <<p>>
    ELSE IF p.rank < Head(sorted).rank THEN <<p>> \o sorted
    ELSE <<Head(sorted)>> \o StableInsert(Tail(sorted), p)

RECURSIVE StableSortRanked(_)
StableSortRanked(ranked) ==
    IF ranked = <<>> THEN <<>>
    ELSE StableInsert(StableSortRanked(SubSeq(ranked, 1, Len(ranked) - 1)),
                      ranked[Len(ranked)])

StableSort(ranked) ==
    LET r == StableSortRanked(ranked) IN [i \in 1..Len(r) |-> r[i].entry]

Slice(s, n) == SubSeq(s, 1, IF Len(s) < n THEN Len(s) ELSE n)


(***************************************************************************)
(* addQRCode (App.tsx:180-249).                                            *)
(***************************************************************************)
\* CooldownRejects looking at every entry of the table instead of the
\* entry of the hash.
CooldownRejects_AnyEntry(scans, hash, t) ==
    \E i \in 1..Len(scans) :
        scans[i].value # 0 /\ t - scans[i].value < SCAN_COOLDOWN_DURATION

\* App.tsx:185-188: the cooldown check, on the recentScans Map of the closure.
\* Map.get gives undefined for an absent key, and undefined and 0 are falsy.
CooldownRejects(scans, hash, t) ==
    /\ MapHas(scans, hash)
    /\ MapGet(scans, hash) # 0
    /\ t - MapGet(scans, hash) < SCAN_COOLDOWN_DURATION

\* App.tsx:195-199: delete the entries older than the TTL.
PurgeOld(scans, t) == SelectSeq(scans, LAMBDA e : ~(t - e.value > SCAN_HISTORY_TTL))

\* LimitRecentScans deleting the Map's first entry, without the sort.
LimitRecentScans_FirstInserted(scans) ==
    IF Len(scans) > MAX_RECENT_SCANS THEN MapDelete(scans, scans[1].key) ELSE scans

\* App.tsx:205-209: over the bound, delete the first entry of the least time.
LimitRecentScans(scans) ==
    IF Len(scans) > MAX_RECENT_SCANS
    THEN LET sorted == StableSort([i \in 1..Len(scans) |->
                                      [rank |-> scans[i].value, entry |-> scans[i]]])
         IN MapDelete(scans, sorted[1].key)
    ELSE scans

\* App.tsx:191-212: the updater given to setRecentScans.
RecordScan(prev, hash, t) == LimitRecentScans(MapSet(PurgeOld(prev, t), hash, t))

\* Upsert without the lookup of App.tsx:218: always a new entry, appended.
Upsert_NoLookup(prev, hash, text, t) ==
    Append(prev, [key |-> hash,
                  value |-> [id |-> hash, text |-> text, firstSeen |-> t,
                             lastSeen |-> t, count |-> 1]])

\* Upsert whose bump leaves the count as it was.
Upsert_CountStays(prev, hash, text, t) ==
    IF MapHas(prev, hash)
    THEN MapSet(prev, hash, [MapGet(prev, hash) EXCEPT !.lastSeen = t])
    ELSE MapSet(prev, hash, [id |-> hash, text |-> text, firstSeen |-> t,
                             lastSeen |-> t, count |-> 1])

\* App.tsx:218-235: bump the entry of the hash, or create it.
Upsert(prev, hash, text, t) ==
    IF MapHas(prev, hash)
    THEN LET existing == MapGet(prev, hash)
         IN MapSet(prev, hash, [existing EXCEPT !.lastSeen = t, !.count = existing.count + 1])
    ELSE MapSet(prev, hash, [id |-> hash, text |-> text, firstSeen |-> t,
                             lastSeen |-> t, count |-> 1])

\* LimitUniqueResults with the size compared to one more than the bound.
LimitUniqueResults_OffByOne(results) ==
    IF Len(results) > MAX_UNIQUE_RESULTS + 1
    THEN Slice(StableSort([i \in 1..Len(results) |->
                              [rank |-> 0 - results[i].value.lastSeen, entry |-> results[i]]]),
               MAX_UNIQUE_RESULTS)
    ELSE results

\* LimitUniqueResults with the comparator reversed (a[1].lastSeen - b[1].lastSeen).
LimitUniqueResults_KeepsOldest(results) ==
    IF Len(results) > MAX_UNIQUE_RESULTS
    THEN Slice(StableSort([i \in 1..Len(results) |->
                              [rank |-> results[i].value.lastSeen, entry |-> results[i]]]),
               MAX_UNIQUE_RESULTS)
    ELSE results

\* App.tsx:238-243: over the bound, keep the MAX_UNIQUE_RESULTS first entries
\* in descending lastSeen.
LimitUniqueResults(results) ==
    IF Len(results) > MAX_UNIQUE_RESULTS
    THEN Slice(StableSort([i \in 1..Len(results) |->
                              [rank |-> 0 - results[i].value.lastSeen, entry |-> results[i]]]),
               MAX_UNIQUE_RESULTS)
    ELSE results

\* App.tsx:214-246: the updater given to setUniqueResults.
UpdateResults(prev, hash, text, t) == LimitUniqueResults(Upsert(prev, hash, text, t))

\* AddQRCode with setRecentScans given a Map built from the closure's table
\* (new Map(recentScans)) in place of the updater's prev.
AddQRCode_StaleTable(clo, st, text, t) ==
    LET hash == Fingerprint(text) IN
    IF UriThrows(text)
    THEN [st |-> st, ok |-> FALSE, threw |-> TRUE]
    ELSE IF CooldownRejects(clo.recentScans, hash, t)
    THEN [st |-> st, ok |-> FALSE, threw |-> FALSE]
    ELSE [st |-> [st EXCEPT !.recentScans = RecordScan(clo.recentScans, hash, t),
                            !.uniqueResults = UpdateResults(@, hash, text, t),
                            !.scansSet = TRUE],
          ok |-> TRUE, threw |-> FALSE]

\* App.tsx:180-249.  clo is the closure the callback was created in, st the
\* state with the updates queued so far in this task; the result is the state
\* with this call's updaters applied, and the value returned.  threw: the
\* call ended in encodeURIComponent's URIError and returned nothing.
AddQRCode(clo, st, text, t) ==
    LET hash == Fingerprint(text) IN
    IF UriThrows(text)
    THEN [st |-> st, ok |-> FALSE, threw |-> TRUE]
    ELSE IF CooldownRejects(clo.recentScans, hash, t)
    THEN [st |-> st, ok |-> FALSE, threw |-> FALSE]
    ELSE [st |-> [st EXCEPT !.recentScans = RecordScan(@, hash, t),
                            !.uniqueResults = UpdateResults(@, hash, text, t),
                            !.scansSet = TRUE],
          ok |-> TRUE, threw |-> FALSE]

\* App.tsx:387-391 and 404-406: addQRCode on each result in order.  log is
\* the sequence of [text, ok] of the calls that returned; a call that throws
\* ends the loop (threw), and what the calls before it queued stays queued.
RECURSIVE AddAll(_, _, _, _)
AddAll(clo, st, texts, t) ==
    IF texts = <<>> THEN [st |-> st, any |-> FALSE, log |-> <<>>, threw |-> FALSE]
    ELSE LET first == AddQRCode(clo, st, Head(texts), t) IN
         IF first.threw THEN [st |-> st, any |-> FALSE, log |-> <<>>, threw |-> TRUE]
         ELSE LET rest == AddAll(clo, first.st, Tail(texts), t)
              IN [st |-> rest.st, any |-> first.ok \/ rest.any,
                  log |-> <<[text |-> Head(texts), ok |-> first.ok]>> \o rest.log,
                  threw |-> rest.threw]

(***************************************************************************)
(* React state, closures and commits.                                      *)
(***************************************************************************)
\* The state cells as a record.  scansSet: setRecentScans was called in this
\* task (every caller gives it a new Map, so the cell's identity changes).
State ==
    [isInitialized |-> isInitialized, isScanning |-> isScanning,
     uniqueResults |-> uniqueResults, recentScans |-> recentScans,
     guideState |-> guideState, lastScanTime |-> lastScanTime,
     scanInterval |-> scanInterval, focusGuideOnly |-> focusGuideOnly,
     timers |-> timers, scansSet |-> FALSE]

\* What scanQRCodes and the addQRCode it calls read from their render
\* (App.tsx:249 and 475).
ClosureOf(st) ==
    [isInitialized |-> st.isInitialized, isScanning |-> st.isScanning,
     recentScans |-> st.recentScans, guideState |-> st.guideState,
     lastScanTime |-> st.lastScanTime, scanInterval |-> st.scanInterval,
     focusGuideOnly |-> st.focusGuideOnly]

\* useCallback gives a new scanQRCodes when a dependency changed (Object.is).
ScanCallbackChanged(st) ==
    \/ st.isInitialized # isInitialized
    \/ st.isScanning # isScanning
    \/ st.scansSet
    \/ st.guideState # guideState
    \/ st.lastScanTime # lastScanTime
    \/ st.scanInterval # scanInterval
    \/ st.focusGuideOnly # focusGuideOnly

\* App.tsx:252-278, up to the first suspension: the invocations (none or one)
\* that a call of the scanQRCodes of closure clo leaves in flight at time t.
\* phase "raf": requestAnimationFrame(scanQRCodes) is pending; inRef: its
\* handle is the one in animationFrameRef.current.  phase "decode": awaiting
\* the race of App.tsx:335, started at time at; reset: resetList ran during
\* the await (a history of the run, read by no handler).  handle: the
\* identifier requestAnimationFrame returned, kept modulo HandleWrap.
InvokeScan(clo, ready, t) ==
    IF ~clo.isInitialized \/ ~clo.isScanning THEN <<>>
    ELSE IF ~ready THEN
        IF clo.isScanning
        THEN <<[phase |-> "raf", clo |-> clo, at |-> 0, inRef |-> TRUE, reset |-> FALSE,
               handle |-> 0]>>
        ELSE <<>>
    ELSE <<[phase |-> "decode", clo |-> clo, at |-> t, inRef |-> FALSE, reset |-> FALSE,
            handle |-> 0]>>

\* The frame requested from a frame's callback gets the next identifier.
NextHandle(invoked, handle) ==
    [i \in 1..Len(invoked) |-> [invoked[i] EXCEPT !.handle = (handle + 1) % HandleWrap]]

RequestsFrame(invoked) == invoked # <<>> /\ invoked[1].phase = "raf"

\* animationFrameRef.current = requestAnimationFrame(...) overwrites the handle.
Overwritten(chs) == [i \in 1..Len(chs) |-> [chs[i] EXCEPT !.inRef = FALSE]]

\* App.tsx:596-600: the effect of a commit calls the new scanQRCodes.
EffectInvokes(st, ready, t) ==
    IF ScanCallbackChanged(st) /\ st.isScanning /\ st.isInitialized
    THEN InvokeScan(ClosureOf(st), ready, t)
    ELSE <<>>

\* The commit of a task: st is the state with the task's updates applied, chs
\* the invocations in flight after the task itself, ready the video's state.
Commit(st, chs, ready, what) ==
    LET invoked == EffectInvokes(st, ready, now)
        frame == RequestsFrame(invoked)
    IN  /\ isInitialized' = st.isInitialized
        /\ isScanning' = st.isScanning
        /\ uniqueResults' = st.uniqueResults
        /\ recentScans' = st.recentScans
        /\ guideState' = st.guideState
        /\ lastScanTime' = st.lastScanTime
        /\ scanInterval' = st.scanInterval
        /\ focusGuideOnly' = st.focusGuideOnly
        /\ timers' = st.timers
        /\ videoReady' = ready
        /\ chains' = (IF frame THEN Overwritten(chs) ELSE chs) \o invoked
        /\ last' = what


(***************************************************************************)
(* The guide region and the classification of a detection                  *)
(* (GuideFrame.tsx:27-81, App.tsx:339-376).  Lengths are in units of       *)
(* 1/Unit pixel, so that the divisions of the code are exact on the inputs *)
(* used here (container sizes that are multiples of 20 pixels).            *)
(***************************************************************************)
Unit == 27720

Px(n) == n * Unit

Max(a, b) == IF a >= b THEN a ELSE b

Min(a, b) == IF a <= b THEN a ELSE b

Abs(a) == IF a >= 0 THEN a ELSE 0 - a

\* GuideFrame.tsx:27-33.  baseRatio 252 x 352 is 63 x 88 in lowest terms,
\* screenCoverage 0.6 is 3/5.
config ==
    [baseRatio |-> [width |-> 63, height |-> 88],
     screenCoverage |-> [num |-> 3, den |-> 5],
     minWidth |-> Px(200), maxWidth |-> Px(400)]

\* x * ratio and x / ratio, ratio = baseRatio.height / baseRatio.width.
TimesRatio(x) == (x * config.baseRatio.height) \div config.baseRatio.width

OverRatio(x) == (x * config.baseRatio.width) \div config.baseRatio.height

Coverage(x) == (x * config.screenCoverage.num) \div config.screenCoverage.den

\* GuideFrame.tsx:35-63.
calculateGuideSize(containerWidth, containerHeight) ==
    LET exceeds == TimesRatio(Coverage(containerWidth)) > Coverage(containerHeight)
        fitted == IF exceeds THEN OverRatio(Coverage(containerHeight))
                  ELSE Coverage(containerWidth)
        width == Max(config.minWidth, Min(config.maxWidth, fitted))
        height == TimesRatio(width)
        left == (containerWidth - width) \div 2
        top == (containerHeight - height) \div 2
    IN [top |-> top, left |-> left, width |-> width, height |-> height,
        center |-> [x |-> left + width \div 2, y |-> top + height \div 2]]

\* GuideFrame.tsx:65-81.
isQRInGuide(qrBounds, guide) ==
    LET qrCenter == [x |-> qrBounds.x + qrBounds.width \div 2,
                     y |-> qrBounds.y + qrBounds.height \div 2]
        tolerance == guide.width \div 10
    IN /\ qrCenter.x >= guide.left - tolerance
       /\ qrCenter.x <= guide.left + guide.width + tolerance
       /\ qrCenter.y >= guide.top - tolerance
       /\ qrCenter.y <= guide.top + guide.height + tolerance

\* App.tsx:339-344: videoWrapperRef.current is <<>> (null) or <<element>>.
GuideRegionOf(wrapper) ==
    IF wrapper # <<>>
    THEN <<calculateGuideSize(wrapper[1].clientWidth, wrapper[1].clientHeight)>>
    ELSE <<>>

\* App.tsx:353-356.
VideoScale(video, wrapper) ==
    [x |-> video.videoWidth \div wrapper[1].clientWidth,
     y |-> video.videoHeight \div wrapper[1].clientHeight]

\* App.tsx:358-369: result.position is <<>> (undefined) or <<the four points>>.
DisplayBounds(points, videoScale) ==
    LET centerX == (points.topLeft.x + points.topRight.x + points.bottomLeft.x
                      + points.bottomRight.x) \div 4
        centerY == (points.topLeft.y + points.topRight.y + points.bottomLeft.y
                      + points.bottomRight.y) \div 4
    IN [x |-> centerX \div videoScale.x,
        y |-> centerY \div videoScale.y,
        width |-> Abs(points.topRight.x - points.topLeft.x) \div videoScale.x,
        height |-> Abs(points.bottomLeft.y - points.topLeft.y) \div videoScale.y]

\* App.tsx:350-376: the list a result is pushed to.
Classify(position, wrapper, video) ==
    LET guideRegion == GuideRegionOf(wrapper) IN
    IF guideRegion # <<>> /\ position # <<>>
    THEN IF isQRInGuide(DisplayBounds(position[1], VideoScale(video, wrapper)),
                        guideRegion[1])
         THEN "in" ELSE "out"
    ELSE "none"


(***************************************************************************)
(* The environment's inputs.                                               *)
(***************************************************************************)
Texts == {<<65>>, <<66>>, <<67>>}     \* "A", "B", "C"

OneText == {<<65>>}

TwoTexts == {<<65>>, <<66>>}

\* Texts that exercise each step of the fingerprint: "A", "AA", "=", "A=",
\* "%" and "%25" (the percent escapes), U+00E9 (two UTF-8 bytes), U+1F600 as
\* a surrogate pair (four bytes), and a high and a low surrogate alone.
FingerprintTexts ==
    {<<65>>, <<65, 65>>, <<61>>, <<65, 61>>, <<37>>, <<37, 50, 53>>, <<233>>,
     <<55357, 56832>>, <<55357>>, <<56832>>}

\* place: the result has a position whose centre isQRInGuide finds inside
\* the guide ("in") or outside it ("out"), or it has no position ("none").
Detection(text, place) == [text |-> text, place |-> place]

Places == {"in", "out"}

Detections(texts, places) == {Detection(x, p) : x \in texts, p \in places}

\* The sizes of the video wrapper element (clientWidth x clientHeight, in
\* pixels): a phone in portrait, a wide and low window, a tablet.
WrapperSizes == {<<320, 640>>, <<1200, 420>>, <<600, 1000>>}

Wrapper(size) == [clientWidth |-> Px(size[1]), clientHeight |-> Px(size[2])]

\* The video has VideoZoom video pixels per display pixel.
VideoZooms == {2}

Video(wrapper, zoom) ==
    [videoWidth |-> wrapper.clientWidth * zoom, videoHeight |-> wrapper.clientHeight * zoom]

\* The corner points of a detection with centroid (cx, cy), w wide and h high.
Rect(cx, cy, w, h) ==
    [topLeft |-> [x |-> cx - w \div 2, y |-> cy - h \div 2],
     topRight |-> [x |-> cx + w \div 2, y |-> cy - h \div 2],
     bottomLeft |-> [x |-> cx - w \div 2, y |-> cy + h \div 2],
     bottomRight |-> [x |-> cx + w \div 2, y |-> cy + h \div 2]]

\* App.tsx:15: CANVAS_SCALE = 0.6 is 3/5.
CANVAS_SCALE == [num |-> 3, den |-> 5]

\* Math.floor of a length, in whole pixels.
Floor(x) == (x \div Unit) * Unit

\* App.tsx:267-268: the canvas readBarcodes samples; the positions it
\* reports are pixels of this image.
Canvas(video) ==
    [width |-> Floor((video.videoWidth * CANVAS_SCALE.num) \div CANVAS_SCALE.den),
     height |-> Floor((video.videoHeight * CANVAS_SCALE.num) \div CANVAS_SCALE.den)]

\* The detection lies within the sampled image.
OnScreen(points, video) ==
    /\ points.topLeft.x >= 0 /\ points.topLeft.y >= 0
    /\ points.bottomRight.x <= Canvas(video).width
    /\ points.bottomRight.y <= Canvas(video).height

\* Widths and heights of a detection, in display pixels.
DetectionSizes == {40, 260, 360}

\* How far above the guide's centre line the centroid is, in display pixels.
Rises == {0, 25}

\* Where the centroid of a detection is, in display coordinates: at the
\* guide's centre, or one guide width to the left of the guide.
Anchors(guide, rise) ==
    {[x |-> guide.center.x, y |-> guide.center.y - Px(rise)],
     [x |-> guide.left - guide.width, y |-> guide.center.y - Px(rise)]}

\* The detections of a video shown in the wrapper, as readBarcodes reports
\* them, that the code's conversion takes to the anchors.
PositionsIn(wrapper, zoom) ==
    LET guide == calculateGuideSize(wrapper.clientWidth, wrapper.clientHeight)
        all == {Rect(a.x * zoom, a.y * zoom, Px(w) * zoom, Px(h) * zoom) :
                   a \in UNION {Anchors(guide, r) : r \in Rises},
                   w \in DetectionSizes, h \in DetectionSizes}
    IN {p \in all : OnScreen(p, Video(wrapper, zoom))}

\* A result as scanQRCodes classifies it.  position: <<>> when readBarcodes
\* gave none; wrapper: <<>> when videoWrapperRef.current is null.
Seen(text, position, wrapper, video) ==
    [text |-> text, place |-> Classify(position, wrapper, video),
     position |-> position, wrapper |-> wrapper, video |-> video]

\* The text "A" anywhere in PositionsIn, or without position, or while the
\* wrapper is gone.
Framed ==
    UNION {LET wrapper == Wrapper(size)
               video == Video(wrapper, zoom)
           IN {Seen(<<65>>, <<p>>, <<wrapper>>, video) : p \in PositionsIn(wrapper, zoom)}
                \cup {Seen(<<65>>, <<>>, <<wrapper>>, video)}
                \cup {Seen(<<65>>, <<p>>, <<>>, video) : p \in PositionsIn(wrapper, zoom)}
           : size \in WrapperSizes, zoom \in VideoZooms}

\* Widths and heights of a detection, in pixels of the sampled image.
SampledSizes == {48, 240}

\* The text "A" with its centroid at the centre of the sampled image.
Centred ==
    UNION {LET wrapper == Wrapper(size)
               video == Video(wrapper, zoom)
               canvas == Canvas(video)
           IN {Seen(<<65>>, <<p>>, <<wrapper>>, video) :
                  p \in {q \in {Rect(canvas.width \div 2, canvas.height \div 2, Px(w), Px(h)) :
                                   w \in SampledSizes, h \in SampledSizes} :
                             OnScreen(q, video)}}
           : size \in WrapperSizes, zoom \in VideoZooms}

\* What the race of App.tsx:335 settles with: readBarcodes' results (at most
\* maxNumberOfSymbols of them), its rejection, or the timeout's rejection.
ResultLists(detections) ==
    UNION {[1..n -> detections] : n \in 0..MAX_NUMBER_OF_SYMBOLS}

Resolved(detections) == {[kind |-> "results", results |-> r] : r \in ResultLists(detections)}

Rejected == {[kind |-> "failure", results |-> <<>>], [kind |-> "timeout", results |-> <<>>]}

Outcomes == Resolved(Detections(Texts, Places)) \cup Rejected

\* The clock advances by one of TickSteps, so that Date.now() differences are
\* multiples of the smallest of them; performance.now() has a finer
\* resolution, and a processing time measured within one step is any of
\* SubStepTimes.
TickSteps == {1000, 3000}

SubStepTimes == {25, 50, 75, 100, 150}

\* A decode that takes between 50 and 100 ms: the interval is left alone.
TypicalTimes == {75}

ProcessingTimes(elapsed) == IF elapsed = 0 THEN SubStepTimes ELSE {elapsed}

NoLog == <<>>

\* What the last task was: its operation, the addQRCode calls it made,
\* whether it continued a decode during which resetList ran, the results of
\* that decode and the processing time it measured.
Did(op) == [op |-> op, log |-> NoLog, reset |-> FALSE, results |-> <<>>, pt |-> 0]

(***************************************************************************)
(* scanQRCodes after the await (App.tsx:335-475).                          *)
(***************************************************************************)
TextsAt(results, places) ==
    LET sel == SelectSeq(results, LAMBDA r : r.place \in places)
    IN [i \in 1..Len(sel) |-> sel[i].text]

Timer(kind, at) == [kind |-> kind, at |-> at]

\* HandleError without the test for the timeout's message.
HandleError_TimeoutIsError(st, kind, t) ==
    [st EXCEPT !.guideState = "error",
               !.timers = @ \cup {Timer("revertGuide", t + ERROR_DISPLAY)}]

\* HandleError without the setTimeout of App.tsx:436.
HandleError_NoRevert(st, kind, t) ==
    IF kind = "timeout" THEN st
    ELSE [st EXCEPT !.guideState = "error"]

\* App.tsx:424-438: the race rejected.
HandleError(st, kind, t) ==
    IF kind = "timeout" THEN st
    ELSE [st EXCEPT !.guideState = "error",
                    !.timers = @ \cup {Timer("revertGuide", t + ERROR_DISPLAY)}]

\* HandleResults with the else branch of App.tsx:374-376 dropping the result.
HandleResults_DropsUnplaced(clo, st, results, t) ==
    LET inGuide == TextsAt(results, {"in"})
        outGuide == TextsAt(results, {"out"})
    IN
    IF Len(results) > 0 THEN
        IF Len(inGuide) > 0 THEN
            LET added == AddAll(clo, st, inGuide, t) IN
            IF added.threw
            THEN [st |-> HandleError(added.st, "failure", t), log |-> added.log,
                  threw |-> TRUE]
            ELSE IF added.any
            THEN [st |-> [added.st EXCEPT
                            !.guideState = "success",
                            !.lastScanTime = t,
                            !.scanInterval = SCAN_INTERVAL_MAX,
                            !.timers = @ \cup {Timer("revertGuide", t + SUCCESS_DISPLAY),
                                               Timer("relaxInterval", t + GRACE_PERIOD)}],
                  log |-> added.log, threw |-> FALSE]
            ELSE [st |-> added.st, log |-> added.log, threw |-> FALSE]
        ELSE IF Len(outGuide) > 0 /\ t - clo.lastScanTime > OUT_GUIDE_COOLDOWN THEN
            LET added == AddAll(clo, st, outGuide, t)
            IN [st |-> IF added.threw THEN HandleError(added.st, "failure", t)
                       ELSE added.st,
                log |-> added.log, threw |-> added.threw]
        ELSE [st |-> st, log |-> NoLog, threw |-> FALSE]
    ELSE IF clo.guideState = "success"
        THEN [st |-> [st EXCEPT !.guideState = "scanning"], log |-> NoLog, threw |-> FALSE]
        ELSE [st |-> st, log |-> NoLog, threw |-> FALSE]

\* HandleResults without the test of hasNewDetection at App.tsx:393.
HandleResults_SuccessOnSight(clo, st, results, t) ==
    LET inGuide == TextsAt(results, {"in"})
        outGuide == TextsAt(results, {"out", "none"})
    IN
    IF Len(results) > 0 THEN
        IF Len(inGuide) > 0 THEN
            LET added == AddAll(clo, st, inGuide, t) IN
            IF added.threw
            THEN [st |-> HandleError(added.st, "failure", t), log |-> added.log,
                  threw |-> TRUE]
            ELSE IF TRUE
            THEN [st |-> [added.st EXCEPT
                            !.guideState = "success",
                            !.lastScanTime = t,
                            !.scanInterval = SCAN_INTERVAL_MAX,
                            !.timers = @ \cup {Timer("revertGuide", t + SUCCESS_DISPLAY),
                                               Timer("relaxInterval", t + GRACE_PERIOD)}],
                  log |-> added.log, threw |-> FALSE]
            ELSE [st |-> added.st, log |-> added.log, threw |-> FALSE]
        ELSE IF Len(outGuide) > 0 /\ t - clo.lastScanTime > OUT_GUIDE_COOLDOWN THEN
            LET added == AddAll(clo, st, outGuide, t)
            IN [st |-> IF added.threw THEN HandleError(added.st, "failure", t)
                       ELSE added.st,
                log |-> added.log, threw |-> added.threw]
        ELSE [st |-> st, log |-> NoLog, threw |-> FALSE]
    ELSE IF clo.guideState = "success"
        THEN [st |-> [st EXCEPT !.guideState = "scanning"], log |-> NoLog, threw |-> FALSE]
        ELSE [st |-> st, log |-> NoLog, threw |-> FALSE]

\* App.tsx:337-438: the results of a decode that resolved.  An addQRCode
\* that throws is caught at App.tsx:424 like a rejected decode; its error is
\* not the timeout's.
HandleResults(clo, st, results, t) ==
    LET inGuide == TextsAt(results, {"in"})
        outGuide == TextsAt(results, {"out", "none"})
    IN
    IF Len(results) > 0 THEN
        IF Len(inGuide) > 0 THEN
            LET added == AddAll(clo, st, inGuide, t) IN
            IF added.threw
            THEN [st |-> HandleError(added.st, "failure", t), log |-> added.log,
                  threw |-> TRUE]
            ELSE IF added.any
            THEN [st |-> [added.st EXCEPT
                            !.guideState = "success",
                            !.lastScanTime = t,
                            !.scanInterval = SCAN_INTERVAL_MAX,
                            !.timers = @ \cup {Timer("revertGuide", t + SUCCESS_DISPLAY),
                                               Timer("relaxInterval", t + GRACE_PERIOD)}],
                  log |-> added.log, threw |-> FALSE]
            ELSE [st |-> added.st, log |-> added.log, threw |-> FALSE]
        ELSE IF Len(outGuide) > 0 /\ t - clo.lastScanTime > OUT_GUIDE_COOLDOWN THEN
            LET added == AddAll(clo, st, outGuide, t)
            IN [st |-> IF added.threw THEN HandleError(added.st, "failure", t)
                       ELSE added.st,
                log |-> added.log, threw |-> added.threw]
        ELSE [st |-> st, log |-> NoLog, threw |-> FALSE]
    ELSE IF clo.guideState = "success"
        THEN [st |-> [st EXCEPT !.guideState = "scanning"], log |-> NoLog, threw |-> FALSE]
        ELSE [st |-> st, log |-> NoLog, threw |-> FALSE]

\* AdjustInterval with the tests processingTime >= 100 and <= 50.
AdjustInterval_Inclusive(prev, processingTime) ==
    IF processingTime >= 100 THEN
        IF prev + 50 < SCAN_INTERVAL_MAX THEN prev + 50 ELSE SCAN_INTERVAL_MAX
    ELSE IF processingTime <= 50 THEN
        IF prev - 25 > SCAN_INTERVAL_MIN THEN prev - 25 ELSE SCAN_INTERVAL_MIN
    ELSE prev

\* AdjustInterval without Math.min and Math.max.
AdjustInterval_Unclamped(prev, processingTime) ==
    IF processingTime > 100 THEN prev + 50
    ELSE IF processingTime < 50 THEN prev - 25
    ELSE prev

\* App.tsx:460-465: the updater queued for the measured processing time.
AdjustInterval(prev, processingTime) ==
    IF processingTime > 100 THEN
        IF prev + 50 < SCAN_INTERVAL_MAX THEN prev + 50 ELSE SCAN_INTERVAL_MAX
    ELSE IF processingTime < 50 THEN
        IF prev - 25 > SCAN_INTERVAL_MIN THEN prev - 25 ELSE SCAN_INTERVAL_MIN
    ELSE prev

\* Reschedule without the setTimeout of App.tsx:469.
Reschedule_Never(ch, t) == <<>>

\* App.tsx:467-474: the invocation waits in setTimeout for the closure's interval.
Reschedule(ch, t) ==
    IF ch.clo.isScanning
    THEN <<[phase |-> "timer", clo |-> ch.clo, at |-> t + ch.clo.scanInterval,
            inRef |-> FALSE, reset |-> FALSE, handle |-> 0]>>
    ELSE <<>>

Replace(chs, i, new) == SubSeq(chs, 1, i - 1) \o new \o SubSeq(chs, i + 1, Len(chs))

(***************************************************************************)
(* Actions.                                                                *)
(***************************************************************************)
Init ==
    /\ now = PageLoadTime
    /\ isInitialized = FALSE
    /\ isScanning = FALSE
    /\ uniqueResults = <<>>
    /\ recentScans = <<>>
    /\ guideState = "waiting"
    /\ lastScanTime = 0
    /\ scanInterval = SCAN_INTERVAL_DEFAULT
    /\ focusGuideOnly = FALSE
    /\ videoReady = FALSE
    /\ chains = <<>>
    /\ timers = {}
    /\ nextCleanup = PageLoadTime + MEMORY_CLEANUP_INTERVAL
    /\ clicks = [start |-> 0, stop |-> 0, reset |-> 0]
    /\ last = Did("other")

\* App.tsx:65-108: prepareZXingModule resolved.
InitializeZXing ==
    /\ ~isInitialized
    /\ Commit([State EXCEPT !.isInitialized = TRUE], chains, videoReady, Did("other"))
    /\ UNCHANGED <<now, nextCleanup, clicks>>

\* App.tsx:478-517, from the resolution of video.play(): the button is shown
\* when not scanning and enabled once initialized (App.tsx:660-667).  The
\* timer of App.tsx:508 calls the scanQRCodes of the render of the click, in
\* which isScanning is false: that call returns at App.tsx:253 and leaves
\* nothing in flight (InvokeScan of that closure is empty), so the timer is
\* not kept in the state.  ready: whether the video has a frame by then.
StartScanning(ready) ==
    /\ ~isScanning
    /\ isInitialized
    /\ Commit([State EXCEPT !.isScanning = TRUE, !.guideState = "scanning"],
              chains, ready, Did("start"))
    /\ clicks.start < MaxStarts
    /\ clicks' = [clicks EXCEPT !.start = @ + 1]
    /\ UNCHANGED <<now, nextCleanup>>

\* App.tsx:520-544.  cancelAnimationFrame removes the pending frame whose
\* handle is in animationFrameRef.current; srcObject = null empties the video.
StopScanning ==
    /\ isScanning
    /\ Commit([State EXCEPT !.isScanning = FALSE, !.guideState = "waiting"],
              SelectSeq(chains, LAMBDA c : ~(c.phase = "raf" /\ c.inRef)),
              FALSE, Did("stop"))
    /\ clicks.stop < MaxStops
    /\ clicks' = [clicks EXCEPT !.stop = @ + 1]
    /\ UNCHANGED <<now, nextCleanup>>

\* ClearTables without setRecentScans(new Map()).
ClearTables_KeepsScans(st) == [st EXCEPT !.uniqueResults = <<>>]

\* ClearTables without setUniqueResults(new Map()).
ClearTables_KeepsResults(st) == [st EXCEPT !.recentScans = <<>>, !.scansSet = TRUE]

\* App.tsx:548-549: both cells are given a new empty Map.
ClearTables(st) ==
    [st EXCEPT !.uniqueResults = <<>>, !.recentScans = <<>>, !.scansSet = TRUE]

\* The decodes in flight now have a resetList during their await.
SeenReset(chs) == [i \in 1..Len(chs) |-> [chs[i] EXCEPT !.reset = (chs[i].phase = "decode")]]

\* App.tsx:547-553; the button is disabled on an empty list (App.tsx:680).
ResetList ==
    /\ Len(uniqueResults) # 0
    /\ Commit(ClearTables(State), SeenReset(chains), videoReady, Did("reset"))
    /\ clicks.reset < MaxResets
    /\ clicks' = [clicks EXCEPT !.reset = @ + 1]
    /\ UNCHANGED <<now, nextCleanup>>

\* App.tsx:686.
ToggleFocusGuideOnly ==
    /\ Commit([State EXCEPT !.focusGuideOnly = ~focusGuideOnly],
              chains, videoReady, Did("toggle"))
    /\ UNCHANGED <<now, nextCleanup, clicks>>

\* The camera delivers a frame: video.readyState becomes HAVE_ENOUGH_DATA.
FrameReady ==
    /\ isScanning
    /\ ~videoReady
    /\ videoReady' = TRUE
    /\ last' = Did("other")
    /\ UNCHANGED <<now, isInitialized, isScanning, uniqueResults, recentScans, guideState,
                   lastScanTime, scanInterval, focusGuideOnly, chains, timers,
                   nextCleanup, clicks>>

\* Something whose time has come is pending: a timer or the cleanup that is
\* due, or a decode whose timeout has passed.  The browser runs these before
\* more time passes.  (A pending animation frame may wait: the browser pauses
\* them while the page is hidden.)
Overdue ==
    \/ \E tm \in timers : tm.at <= now
    \/ \E i \in 1..Len(chains) :
          \/ chains[i].phase = "timer" /\ chains[i].at <= now
          \/ chains[i].phase = "decode" /\ now - chains[i].at >= READBARCODES_TIMEOUT
    \/ nextCleanup <= now

\* Time passes.
Tick(d) ==
    /\ ~Overdue
    /\ now' = now + d
    /\ last' = Did("other")
    /\ UNCHANGED <<isInitialized, isScanning, uniqueResults, recentScans, guideState,
                   lastScanTime, scanInterval, focusGuideOnly, videoReady, chains, timers,
                   nextCleanup, clicks>>

\* The animation frame of invocation i: scanQRCodes of its closure runs
\* (App.tsx:261, 275, 471).
FrameFires(i) ==
    /\ chains[i].phase = "raf"
    /\ LET invoked == InvokeScan(chains[i].clo, videoReady, now)
           frame == RequestsFrame(invoked)
       IN Commit(State,
                 Replace(IF frame THEN Overwritten(chains) ELSE chains, i,
                         IF frame THEN NextHandle(invoked, chains[i].handle) ELSE invoked),
                 videoReady, Did("other"))
    /\ UNCHANGED <<now, nextCleanup, clicks>>

\* The timer of App.tsx:469-473 of invocation i.
IntervalElapsed(i) ==
    /\ chains[i].phase = "timer"
    /\ now >= chains[i].at
    /\ Commit(State,
              IF chains[i].clo.isScanning
              THEN Replace(Overwritten(chains), i,
                           <<[phase |-> "raf", clo |-> chains[i].clo, at |-> 0,
                              inRef |-> TRUE, reset |-> FALSE, handle |-> 0]>>)
              ELSE Replace(chains, i, <<>>),
              videoReady, Did("other"))
    /\ UNCHANGED <<now, nextCleanup, clicks>>

\* The race of App.tsx:335 of invocation i settles with outcome o, and the
\* rest of scanQRCodes runs (App.tsx:337-474).  The timeout wins once
\* READBARCODES_TIMEOUT has passed, readBarcodes before that.
DecodeSettles(i, o, pt) ==
    /\ chains[i].phase = "decode"
    /\ IF o.kind = "timeout"
       THEN now - chains[i].at >= READBARCODES_TIMEOUT
       ELSE now - chains[i].at <= READBARCODES_TIMEOUT
    /\ pt \in ProcessingTimes(now - chains[i].at)
    /\ LET ch == chains[i]
           handled == IF o.kind = "results"
                      THEN HandleResults(ch.clo, State, o.results, now)
                      ELSE [st |-> HandleError(State, o.kind, now), log |-> NoLog,
                            threw |-> FALSE]
           st == [handled.st EXCEPT
                    !.scanInterval = AdjustInterval(@, pt)]
       IN Commit(st, Replace(chains, i, Reschedule(ch, now)), videoReady,
                 [op |-> IF handled.threw THEN "thrown" ELSE o.kind,
                  log |-> handled.log, reset |-> ch.reset, results |-> o.results,
                  pt |-> pt])
    /\ UNCHANGED <<now, nextCleanup, clicks>>

\* A timer of App.tsx:395, 400 or 436.
TimerFires(tm) ==
    /\ tm \in timers
    /\ now >= tm.at
    /\ LET st == [State EXCEPT !.timers = @ \ {tm}] IN
       CASE tm.kind = "revertGuide" ->
               Commit([st EXCEPT !.guideState = "scanning"], chains, videoReady,
                      Did("revertGuide"))
         [] tm.kind = "relaxInterval" ->
               Commit([st EXCEPT !.scanInterval = SCAN_INTERVAL_DEFAULT], chains,
                      videoReady, Did("relaxInterval"))
    /\ UNCHANGED <<now, nextCleanup, clicks>>

\* KeepRecent whose new Map is never filled.
KeepRecent_DropsAll(prev, t) == <<>>

\* App.tsx:558-575: the periodic cleanup of recentScans.
KeepRecent(prev, t) == SelectSeq(prev, LAMBDA e : t - e.value < SCAN_HISTORY_TTL)

MemoryCleanup ==
    /\ now >= nextCleanup
    /\ Commit([State EXCEPT !.recentScans = KeepRecent(@, now), !.scansSet = TRUE],
              chains, videoReady, Did("cleanup"))
    /\ nextCleanup' = nextCleanup + MEMORY_CLEANUP_INTERVAL
    /\ UNCHANGED <<now, clicks>>

\* resultsList with the comparator reversed (a.lastSeen - b.lastSeen).
resultsList_Ascending ==
    LET sorted == StableSort([i \in 1..Len(uniqueResults) |->
                                 [rank |-> uniqueResults[i].value.lastSeen,
                                  entry |-> uniqueResults[i]]])
    IN [i \in 1..Len(sorted) |-> sorted[i].value]

\* App.tsx:603-605: what each render shows, the values of uniqueResults
\* sorted by lastSeen descending.
resultsList ==
    LET sorted == StableSort([i \in 1..Len(uniqueResults) |->
                                 [rank |-> 0 - uniqueResults[i].value.lastSeen,
                                  entry |-> uniqueResults[i]]])
    IN [i \in 1..Len(sorted) |-> sorted[i].value]

\* The clock stops at PageLoadTime + horizon, and at most maxChains
\* invocations are in flight.
Within(horizon, maxChains) ==
    /\ now' <= PageLoadTime + horizon
    /\ Len(chains') <= maxChains

InBounds == Within(MaxElapsed, MaxChains)

\* What a decode settles with: one text, inside the guide.
Settled == Resolved(Detections(OneText, {"in"}))

\* The steps the page takes by itself.
PageStep ==
    \/ InitializeZXing /\ InBounds
    \/ FrameReady /\ InBounds
    \/ \E d \in TickSteps : Tick(d) /\ InBounds
    \/ \E i \in 1..Len(chains) : FrameFires(i) /\ InBounds
    \/ \E i \in 1..Len(chains) : IntervalElapsed(i) /\ InBounds
    \/ \E i \in 1..Len(chains), o \in Settled :
            \E pt \in TypicalTimes \cup {now - chains[i].at} :
                DecodeSettles(i, o, pt) /\ InBounds
    \/ \E tm \in timers : TimerFires(tm) /\ InBounds

\* The clicks on the start, stop and reset buttons.
UserStep ==
    \/ \E ready \in BOOLEAN : StartScanning(ready) /\ InBounds
    \/ StopScanning /\ InBounds
    \/ ResetList /\ InBounds

Next == PageStep \/ UserStep

Spec == Init /\ [][Next]_vars

\* The browser runs the tasks that are due: frames, timers, settled promises.
FairSpec == Spec /\ WF_vars(PageStep)

InCapacityBounds == Within(CapacityElapsed, CapacityChains)

\* Three texts inside the guide, more than the result list holds.
SettledCapacity == Resolved(Detections(Texts, {"in"}))

\* A scan that is started and left running.
NextCapacity ==
    \/ InitializeZXing /\ InCapacityBounds
    \/ \E ready \in BOOLEAN : StartScanning(ready) /\ InCapacityBounds
    \/ FrameReady /\ InCapacityBounds
    \/ \E d \in TickSteps : Tick(d) /\ InCapacityBounds
    \/ \E i \in 1..Len(chains) : FrameFires(i) /\ InCapacityBounds
    \/ \E i \in 1..Len(chains) : IntervalElapsed(i) /\ InCapacityBounds
    \/ \E i \in 1..Len(chains), o \in SettledCapacity :
            \E pt \in TypicalTimes \cup {now - chains[i].at} :
                DecodeSettles(i, o, pt) /\ InCapacityBounds
    \/ \E tm \in timers : TimerFires(tm) /\ InCapacityBounds

CapacitySpec == Init /\ [][NextCapacity]_vars

InResetBounds == Within(ResetElapsed, ResetChains)

\* Two texts inside the guide.
SettledReset == Resolved(Detections(TwoTexts, {"in"}))

\* A scan of two texts with clicks on start, stop and reset.
NextReset ==
    \/ InitializeZXing /\ InResetBounds
    \/ \E ready \in BOOLEAN : StartScanning(ready) /\ InResetBounds
    \/ StopScanning /\ InResetBounds
    \/ ResetList /\ InResetBounds
    \/ FrameReady /\ InResetBounds
    \/ \E d \in TickSteps : Tick(d) /\ InResetBounds
    \/ \E i \in 1..Len(chains) : FrameFires(i) /\ InResetBounds
    \/ \E i \in 1..Len(chains) : IntervalElapsed(i) /\ InResetBounds
    \/ \E i \in 1..Len(chains), o \in SettledReset :
            \E pt \in TypicalTimes \cup {now - chains[i].at} :
                DecodeSettles(i, o, pt) /\ InResetBounds
    \/ \E tm \in timers : TimerFires(tm) /\ InResetBounds

ResetSpec == Init /\ [][NextReset]_vars

\* Up to AdaptChains invocations are in flight while the clock is at its
\* start, AdaptLateChains once it has advanced.
InAdaptBounds ==
    /\ Within(AdaptElapsed, AdaptChains)
    /\ now' > PageLoadTime => Len(chains') <= AdaptLateChains

\* What a decode settles with: nothing, one text inside the guide, or the
\* timeout.
SettledAdapt ==
    {o \in Settled : Len(o.results) <= 1} \cup {o \in Rejected : o.kind = "timeout"}

\* The clock's step here: to the end of the grace period.
AdaptSteps == {GRACE_PERIOD}

\* A scan that is left running on a camera that has frames from the start,
\* with decodes of every speed: faster than 50 ms, between 50 and 100 ms,
\* slower than 100 ms.
NextAdapt ==
    \/ InitializeZXing /\ InAdaptBounds
    \/ StartScanning(TRUE) /\ InAdaptBounds
    \/ \E d \in AdaptSteps : Tick(d) /\ InAdaptBounds
    \/ \E i \in 1..Len(chains) : FrameFires(i) /\ InAdaptBounds
    \/ \E i \in 1..Len(chains) : IntervalElapsed(i) /\ InAdaptBounds
    \/ \E i \in 1..Len(chains), o \in SettledAdapt :
            \E pt \in SubStepTimes \cup {now - chains[i].at} :
                DecodeSettles(i, o, pt) /\ InAdaptBounds
    \/ \E tm \in timers : TimerFires(tm) /\ InAdaptBounds

AdaptSpec == Init /\ [][NextAdapt]_vars

InFaultBounds == Within(FaultElapsed, FaultChains)

\* What a decode settles with: nothing, one text inside the guide, a failure
\* of the decoder, or the timeout.
SettledFault == {o \in Settled : Len(o.results) <= 1} \cup Rejected

\* A scan whose decodes may fail or time out, with clicks on start and stop.
NextFault ==
    \/ InitializeZXing /\ InFaultBounds
    \/ \E ready \in BOOLEAN : StartScanning(ready) /\ InFaultBounds
    \/ StopScanning /\ InFaultBounds
    \/ FrameReady /\ InFaultBounds
    \/ \E d \in TickSteps : Tick(d) /\ InFaultBounds
    \/ \E i \in 1..Len(chains) : FrameFires(i) /\ InFaultBounds
    \/ \E i \in 1..Len(chains) : IntervalElapsed(i) /\ InFaultBounds
    \/ \E i \in 1..Len(chains), o \in SettledFault :
            \E pt \in TypicalTimes \cup {now - chains[i].at} :
                DecodeSettles(i, o, pt) /\ InFaultBounds
    \/ \E tm \in timers : TimerFires(tm) /\ InFaultBounds

FaultSpec == Init /\ [][NextFault]_vars

InGuideBounds == Within(GuideElapsed, GuideChains)

\* What the camera sees: the text "A" inside the guide, and the text "B"
\* outside it, with a position or without one.
Sighted == {Detection(<<65>>, "in"), Detection(<<66>>, "out"), Detection(<<66>>, "none")}

SettledGuide == Resolved(Sighted)

\* A scan of codes inside and outside the guide that is left running.
NextGuide ==
    \/ InitializeZXing /\ InGuideBounds
    \/ StartScanning(TRUE) /\ InGuideBounds
    \/ \E d \in TickSteps : Tick(d) /\ InGuideBounds
    \/ \E i \in 1..Len(chains) : FrameFires(i) /\ InGuideBounds
    \/ \E i \in 1..Len(chains) : IntervalElapsed(i) /\ InGuideBounds
    \/ \E i \in 1..Len(chains), o \in SettledGuide :
            \E pt \in TypicalTimes \cup {now - chains[i].at} :
                DecodeSettles(i, o, pt) /\ InGuideBounds
    \/ \E tm \in timers : TimerFires(tm) /\ InGuideBounds

GuideSpec == Init /\ [][NextGuide]_vars

InFrameBounds == Within(FrameElapsed, FrameChains)

\* What a decode settles with: nothing, or one detection of Framed.
SettledFrame == {[kind |-> "results", results |-> <<>>]}
                    \cup {[kind |-> "results", results |-> <<d>>] : d \in Framed}

\* A scan of detections with their geometry that is left running.
NextFrame ==
    \/ InitializeZXing /\ InFrameBounds
    \/ StartScanning(TRUE) /\ InFrameBounds
    \/ \E d \in TickSteps : Tick(d) /\ InFrameBounds
    \/ \E i \in 1..Len(chains) : FrameFires(i) /\ InFrameBounds
    \/ \E i \in 1..Len(chains) : IntervalElapsed(i) /\ InFrameBounds
    \/ \E i \in 1..Len(chains), o \in SettledFrame :
            \E pt \in TypicalTimes \cup {now - chains[i].at} :
                DecodeSettles(i, o, pt) /\ InFrameBounds
    \/ \E tm \in timers : TimerFires(tm) /\ InFrameBounds

FrameSpec == Init /\ [][NextFrame]_vars

\* Time passes, and the browser runs what is due: each timer, each frame,
\* each continuation of a race that has settled (readBarcodes settles, or
\* the timeout rejects).
FairFaultSpec ==
    /\ FaultSpec
    /\ WF_vars(\E d \in TickSteps : Tick(d) /\ InFaultBounds)
    /\ WF_vars(\E tm \in timers : TimerFires(tm) /\ InFaultBounds)
    /\ WF_vars(\E i \in 1..Len(chains) : IntervalElapsed(i) /\ InFaultBounds)
    /\ WF_vars(\E i \in 1..Len(chains) : FrameFires(i) /\ InFaultBounds)
    /\ WF_vars(\E i \in 1..Len(chains), o \in SettledFault :
                  \E pt \in TypicalTimes \cup {now - chains[i].at} :
                      DecodeSettles(i, o, pt) /\ InFaultBounds)

InFingerprintBounds == Within(FingerprintElapsed, FingerprintChains)

\* One code in the guide, its text any of FingerprintTexts.
SettledFingerprint ==
    {[kind |-> "results", results |-> <<d>>] : d \in Detections(FingerprintTexts, {"in"})}

\* A scan of codes of many texts that is left running.
NextFingerprint ==
    \/ InitializeZXing /\ InFingerprintBounds
    \/ StartScanning(TRUE) /\ InFingerprintBounds
    \/ \E d \in TickSteps : Tick(d) /\ InFingerprintBounds
    \/ \E i \in 1..Len(chains) : FrameFires(i) /\ InFingerprintBounds
    \/ \E i \in 1..Len(chains) : IntervalElapsed(i) /\ InFingerprintBounds
    \/ \E i \in 1..Len(chains), o \in SettledFingerprint :
            \E pt \in TypicalTimes \cup {now - chains[i].at} :
                DecodeSettles(i, o, pt) /\ InFingerprintBounds
    \/ \E tm \in timers : TimerFires(tm) /\ InFingerprintBounds

FingerprintSpec == Init /\ [][NextFingerprint]_vars

InHistoryBounds == Within(HistoryElapsed, HistoryChains)

\* What the camera sees, inside the guide: "A" with "B", "A" with "C", or
\* "D" alone; four texts, more than the cooldown table holds.
SettledHistory ==
    {[kind |-> "results", results |-> [i \in 1..Len(seen) |-> Detection(seen[i], "in")]] :
        seen \in {<<<<65>>, <<66>>>>, <<<<65>>, <<67>>>>, <<<<68>>>>}}

\* A scan of four texts that is started on a ready camera and left running.
NextHistory ==
    \/ InitializeZXing /\ InHistoryBounds
    \/ StartScanning(TRUE) /\ InHistoryBounds
    \/ \E d \in TickSteps : Tick(d) /\ InHistoryBounds
    \/ \E i \in 1..Len(chains) : FrameFires(i) /\ InHistoryBounds
    \/ \E i \in 1..Len(chains) : IntervalElapsed(i) /\ InHistoryBounds
    \/ \E i \in 1..Len(chains), o \in SettledHistory :
            \E pt \in TypicalTimes \cup {now - chains[i].at} :
                DecodeSettles(i, o, pt) /\ InHistoryBounds
    \/ \E tm \in timers : TimerFires(tm) /\ InHistoryBounds

HistorySpec == Init /\ [][NextHistory]_vars

InCleanupBounds == Within(CleanupElapsed, CleanupChains)

\* One text inside the guide, or the decode's timeout.
SettledCleanup ==
    {[kind |-> "results", results |-> <<d>>] : d \in Detections(OneText, {"in"})}
        \cup {[kind |-> "timeout", results |-> <<>>]}

\* The clock of a long run advances in steps of these.
CleanupSteps == {5000, 25000}

\* A scan followed over the first period of the memory cleanup.
NextCleanup ==
    \/ InitializeZXing /\ InCleanupBounds
    \/ StartScanning(TRUE) /\ InCleanupBounds
    \/ StopScanning /\ InCleanupBounds
    \/ \E d \in CleanupSteps : Tick(d) /\ InCleanupBounds
    \/ \E i \in 1..Len(chains) : FrameFires(i) /\ InCleanupBounds
    \/ \E i \in 1..Len(chains) : IntervalElapsed(i) /\ InCleanupBounds
    \/ \E i \in 1..Len(chains), o \in SettledCleanup :
            \E pt \in TypicalTimes :
                DecodeSettles(i, o, pt) /\ InCleanupBounds
    \/ \E tm \in timers : TimerFires(tm) /\ InCleanupBounds
    \/ MemoryCleanup /\ InCleanupBounds

CleanupSpec == Init /\ [][NextCleanup]_vars

InCanvasBounds == Within(CanvasElapsed, CanvasChains)

\* What a decode settles with: nothing, or one detection of Centred.
SettledCanvas == {[kind |-> "results", results |-> <<>>]}
                    \cup {[kind |-> "results", results |-> <<d>>] : d \in Centred}

\* A scan of a code held in the middle of the camera's view.
NextCanvas ==
    \/ InitializeZXing /\ InCanvasBounds
    \/ StartScanning(TRUE) /\ InCanvasBounds
    \/ \E d \in TickSteps : Tick(d) /\ InCanvasBounds
    \/ \E i \in 1..Len(chains) : FrameFires(i) /\ InCanvasBounds
    \/ \E i \in 1..Len(chains) : IntervalElapsed(i) /\ InCanvasBounds
    \/ \E i \in 1..Len(chains), o \in SettledCanvas :
            \E pt \in TypicalTimes \cup {now - chains[i].at} :
                DecodeSettles(i, o, pt) /\ InCanvasBounds
    \/ \E tm \in timers : TimerFires(tm) /\ InCanvasBounds

CanvasSpec == Init /\ [][NextCanvas]_vars

InDisplayBounds == Within(DisplayElapsed, DisplayChains)

\* What a decode settles with: the text "A" inside the guide, or
\* readBarcodes' rejection.
SettledDisplay ==
    {[kind |-> "results", results |-> <<d>>] : d \in Detections(OneText, {"in"})}
        \cup {o \in Rejected : o.kind = "failure"}

\* A scan with successes and failures that is started on a ready camera and
\* stopped.
NextDisplay ==
    \/ InitializeZXing /\ InDisplayBounds
    \/ StartScanning(TRUE) /\ InDisplayBounds
    \/ StopScanning /\ InDisplayBounds
    \/ \E d \in TickSteps : Tick(d) /\ InDisplayBounds
    \/ \E i \in 1..Len(chains) : FrameFires(i) /\ InDisplayBounds
    \/ \E i \in 1..Len(chains) : IntervalElapsed(i) /\ InDisplayBounds
    \/ \E i \in 1..Len(chains), o \in SettledDisplay :
            \E pt \in TypicalTimes \cup {now - chains[i].at} :
                DecodeSettles(i, o, pt) /\ InDisplayBounds
    \/ \E tm \in timers : TimerFires(tm) /\ InDisplayBounds

DisplaySpec == Init /\ [][NextDisplay]_vars

InExpiryBounds == Within(ExpiryElapsed, ExpiryChains)

\* What a decode settles with: one of two texts, inside the guide.
SettledExpiry ==
    {[kind |-> "results", results |-> <<d>>] : d \in Detections(TwoTexts, {"in"})}

\* The clock advances by less than SCAN_COOLDOWN_DURATION or by more than
\* SCAN_HISTORY_TTL.
ExpirySteps == {2000, 28000}

\* A scan of two texts followed until the first memory cleanup.
NextExpiry ==
    \/ InitializeZXing /\ InExpiryBounds
    \/ StartScanning(TRUE) /\ InExpiryBounds
    \/ \E d \in ExpirySteps : Tick(d) /\ InExpiryBounds
    \/ \E i \in 1..Len(chains) : FrameFires(i) /\ InExpiryBounds
    \/ \E i \in 1..Len(chains) : IntervalElapsed(i) /\ InExpiryBounds
    \/ \E i \in 1..Len(chains), o \in SettledExpiry :
            \E pt \in TypicalTimes :
                DecodeSettles(i, o, pt) /\ InExpiryBounds
    \/ \E tm \in timers : TimerFires(tm) /\ InExpiryBounds
    \/ MemoryCleanup /\ InExpiryBounds

ExpirySpec == Init /\ [][NextExpiry]_vars

(***************************************************************************)
(* Properties.                                                             *)
(***************************************************************************)
\* The addQRCode calls of a task that returned true.
Accepted(log) == SelectSeq(log, LAMBDA x : x.ok)

\* The table has an entry for the text's fingerprint.
Holds(table, text) == MapHas(table, Fingerprint(text))

\* C1: a text detected twice less than SCAN_COOLDOWN_DURATION apart, in one
\* cycle or in two, is counted once: every count beyond the first took one
\* more cooldown between the entry's firstSeen and its lastSeen.
C1_CooldownDedup ==
    \A i \in 1..Len(uniqueResults) :
        LET e == uniqueResults[i].value
        IN e.lastSeen - e.firstSeen >= (e.count - 1) * SCAN_COOLDOWN_DURATION

\* C2: at most one scan cycle is in progress or scheduled at any time.
C2_OneCycleInFlight == Len(chains) <= 1

\* C3: the results of a decode that settles after stopScanning are discarded:
\* that task calls addQRCode for none of them and leaves the result list,
\* the cooldown table and the guide state as they were.
C3_StoppedDecodeDiscarded ==
    [][(~isScanning /\ last'.op = "results")
          => (last'.log = NoLog /\ UNCHANGED <<uniqueResults, recentScans, guideState>>)]_vars

\* The run's clock has reached its end: timers that are pending stay pending.
ClockEnded == now = PageLoadTime + MaxElapsed

\* C4: after stopScanning the loop terminates: while scanning stays off,
\* eventually no invocation is running or scheduled (in a run whose clock
\* has not ended, so that what is pending gets its turn).
C4_LoopTerminates == [](~isScanning => <>(isScanning \/ chains = <<>> \/ ClockEnded))

Added == {Fingerprint(Accepted(last'.log)[k].text) : k \in 1..Len(Accepted(last'.log))}

Stamp(e) == [id |-> e.key, lastSeen |-> e.value.lastSeen]

\* The entries present in that task: those it created or bumped, last seen
\* now, and the others of the list.
Present ==
    {Stamp(uniqueResults[i]) : i \in {j \in 1..Len(uniqueResults) : uniqueResults[j].key \notin Added}}
        \cup {[id |-> h, lastSeen |-> now] : h \in Added}

Kept == {Stamp(uniqueResults'[i]) : i \in 1..Len(uniqueResults')}

\* One addition, of a fingerprint the full list does not hold.
Overflows ==
    /\ last'.op = "results"
    /\ Cardinality(Added) = 1
    /\ Cardinality(Present) = MAX_UNIQUE_RESULTS + 1

C7_JustAddedKept ==
    (last.op = "results" /\ Accepted(last.log) # <<>>)
        => Holds(uniqueResults, Accepted(last.log)[Len(Accepted(last.log))].text)

\* The cooldown table has an entry of the text recorded less than
\* SCAN_COOLDOWN_DURATION before t.
InCooldown(table, text, t) ==
    /\ Holds(table, text)
    /\ t - MapGet(table, Fingerprint(text)) < SCAN_COOLDOWN_DURATION

\* C8: addQRCode rejects exactly when the cooldown table holds an entry of the
\* fingerprint recorded less than SCAN_COOLDOWN_DURATION ago, and a task whose
\* calls were all rejected changes neither table.  (The first call of a task
\* is the one that finds the table as the last commit left it.)
C8_RejectsExactlyInCooldown ==
    [][(last'.op = "results" /\ last'.log # NoLog)
          => /\ last'.log[1].ok <=> ~InCooldown(recentScans, last'.log[1].text, now)
             /\ Accepted(last'.log) = <<>> => UNCHANGED <<uniqueResults, recentScans>>]_vars

\* C9: after resetList the result list and the cooldown table are empty.
C9_ResetEmptiesBoth ==
    last.op = "reset" => (uniqueResults = <<>> /\ recentScans = <<>>)

\* resetList has just run during a scan, with invocations in flight.
C9_ResetWhileScanning == last.op = "reset" /\ isScanning /\ chains # <<>>

\* The entries of a table.
Entries(table) == {table[i] : i \in 1..Len(table)}

\* What an add of fingerprint h at this time leaves in the result list: the
\* entry it created, or the one it bumped.
Written(h, e) ==
    /\ e.id = h
    /\ e.lastSeen = now
    /\ IF MapHas(uniqueResults, h)
       THEN e.count > MapGet(uniqueResults, h).count
            /\ e.firstSeen = MapGet(uniqueResults, h).firstSeen
       ELSE e.firstSeen = now

\* C10: resetList never leaves an add partially applied.  When it ran during
\* the decode of a cycle, that cycle's adds apply whole to the emptied
\* tables: a fingerprint it accepted is in both tables as the add wrote it,
\* and nothing else comes into either table.  (resetList after the adds
\* leaves the fingerprint in neither, C9.)
C10_AddWholeAfterReset ==
    [][(last'.op = "results" /\ last'.reset) =>
          /\ \A h \in Added :
                /\ MapHas(recentScans', h) /\ MapGet(recentScans', h) = now
                /\ MapHas(uniqueResults', h) /\ Written(h, MapGet(uniqueResults', h))
          /\ \A e \in Entries(recentScans') : e.key \notin Added => e \in Entries(recentScans)
          /\ \A e \in Entries(uniqueResults') : e.key \notin Added => e \in Entries(uniqueResults)]_vars

\* A cycle whose decode saw resetList has added a text, which both tables
\* now hold.
C10_AddedAfterReset ==
    /\ last.op = "results"
    /\ last.reset
    /\ Accepted(last.log) # <<>>
    /\ Holds(recentScans, Accepted(last.log)[1].text)
    /\ Holds(uniqueResults, Accepted(last.log)[1].text)

\* C11: the scan interval is within [SCAN_INTERVAL_MIN, SCAN_INTERVAL_MAX] in
\* every reachable state, whatever processing times, successes and grace
\* period expiries came before.
C11_IntervalWithinBounds ==
    SCAN_INTERVAL_MIN <= scanInterval /\ scanInterval <= SCAN_INTERVAL_MAX

\* A cycle that began with the interval at its minimum has ended, and the
\* interval is at its minimum.
C11_CycleEndedAtMinimum ==
    /\ last.op = "results"
    /\ scanInterval = SCAN_INTERVAL_MIN
    /\ \E i \in 1..Len(chains) :
          /\ chains[i].phase = "timer"
          /\ chains[i].clo.scanInterval = SCAN_INTERVAL_MIN
          /\ chains[i].at = now + SCAN_INTERVAL_MIN

\* C12: at the end of every cycle that accepted a detection inside the guide,
\* the scan interval is SCAN_INTERVAL_MAX, whatever the cycle's measured
\* processing time.
C12_SuccessForcesMaximum ==
    (last.op = "results" /\ Accepted(last.log) # <<>> /\ guideState = "success")
        => scanInterval = SCAN_INTERVAL_MAX

\* C13: while scanning is stopped the guide state is waiting, in every
\* reachable state, also when a timer that reverts the guide state was
\* pending at the stop.
C13_StoppedMeansWaiting == ~isScanning => guideState = "waiting"

\* C14: a decode that times out is a cycle without detections and without
\* error: it changes neither the result list, the cooldown table nor the
\* guide state, the invocation stops awaiting the decode (what readBarcodes
\* settles with later reaches nobody), and it schedules its next cycle; the
\* other invocations stay as they are (but for whose frame the ref holds).
C14_TimeoutIsQuiet ==
    [][last'.op = "timeout" =>
          /\ UNCHANGED <<uniqueResults, recentScans, guideState>>
          /\ \E i \in 1..Len(chains) :
                /\ chains[i].phase = "decode"
                /\ chains'[i].phase = "timer"
                /\ chains'[i].at = now + chains[i].clo.scanInterval
                /\ \A j \in 1..Len(chains) :
                      j # i => [chains'[j] EXCEPT !.inRef = chains[j].inRef] = chains[j]]_vars

\* A decode has timed out while the success of an earlier cycle was on
\* display, and its invocation waits for its next cycle.
C14_TimedOutDuringSuccess ==
    /\ last.op = "timeout"
    /\ guideState = "success"
    /\ uniqueResults # <<>>
    /\ \E i \in 1..Len(chains) :
          chains[i].phase = "timer" /\ chains[i].at = now + chains[i].clo.scanInterval

\* The timers of App.tsx:395 and 436 that are pending.
RevertPending == {tm \in timers : tm.kind = "revertGuide"}

\* The run has reached its number of invocations, or the end of its clock
\* before the pending revert timers are due: what is pending stays pending.
FaultRunEnded ==
    \/ Len(chains) = FaultChains
    \/ /\ \A d \in TickSteps : now + d > PageLoadTime + FaultElapsed
       /\ RevertPending # {}
       /\ \A tm \in RevertPending : tm.at > now

\* C15: a decode that fails (a rejection other than the timeout) sets the
\* guide state to error and changes neither the result list nor the cooldown
\* table; and while scanning is not stopped, an error state is followed by the
\* scanning state (in a run that has not reached its end).
C15_FailureShowsThenReverts ==
    /\ [][last'.op = "failure" =>
             (guideState' = "error" /\ UNCHANGED <<uniqueResults, recentScans>>)]_vars
    /\ []((guideState = "error" /\ isScanning)
             => <>(guideState = "scanning" \/ ~isScanning \/ FaultRunEnded))

\* The error of a failed decode was on display for ERROR_DISPLAY, and the
\* timer has put the guide state back to scanning during the scan.
C15_RevertedAfterError ==
    /\ last.op = "revertGuide"
    /\ isScanning
    /\ guideState = "scanning"
    /\ uniqueResults = <<>>
    /\ \E i \in 1..Len(chains) : chains[i].clo.guideState = "error"

\* Invocation i is in the given phase.
InPhase(i, phase) == i <= Len(chains) /\ chains[i].phase = phase

\* Invocation i has begun a cycle: it awaits a decode, or it found the frame
\* not ready and requested the frame with identifier handle.
CycleBegun(i, handle) ==
    InPhase(i, "decode") \/ (InPhase(i, "raf") /\ chains[i].handle = handle)

\* The run has reached its number of invocations, or the end of its clock
\* before the timer of invocation i is due.
FaultRunEndedFor(i) ==
    \/ Len(chains) = FaultChains
    \/ /\ \A d \in TickSteps : now + d > PageLoadTime + FaultElapsed
       /\ InPhase(i, "timer")
       /\ chains[i].at > now

\* Invocation i waits for a frame with identifier handle.
AwaitsFrame(i, handle) == InPhase(i, "raf") /\ chains[i].handle = handle

\* C16: no outcome of a cycle ends the loop while scanning is not stopped.
\* No invocation ends; one that awaits its decode gets an outcome (detections,
\* none, a timeout or a failure) and then waits for its interval; one that
\* waits for its interval begins another cycle; and so does one that found
\* the frame not ready and waits for a frame.  (With FaultChains invocations
\* in flight the run has ended, so the last index needs no statement.)
C16_EveryOutcomeFollowed ==
    /\ [][(isScanning /\ isScanning') =>
             /\ Len(chains') >= Len(chains)
             /\ \A i \in 1..Len(chains) : chains'[i].clo = chains[i].clo]_vars
    /\ \A i \in 1..(FaultChains - 1) :
          /\ [](InPhase(i, "decode")
                  => <>(InPhase(i, "timer") \/ ~isScanning \/ FaultRunEndedFor(i)))
          /\ \A h \in 0..(HandleWrap - 1) :
                []((AwaitsFrame(i, h) \/ (h = 0 /\ InPhase(i, "timer")))
                     => <>(CycleBegun(i, (h + 1) % HandleWrap) \/ ~isScanning
                             \/ FaultRunEndedFor(i)))

\* The first invocation's decode failed (the second invocation was created
\* by the commit of the error state), and the first invocation, with the
\* closure it had, awaits the decode of a later cycle.
C16_CycleAfterFailure ==
    /\ isScanning
    /\ Len(chains) >= 2
    /\ chains[2].clo.guideState = "error"
    /\ chains[1].clo.guideState = "scanning"
    /\ chains[1].phase = "decode"
    /\ chains[1].at > PageLoadTime

\* The time of the last accepted detection that the cooldown table records
\* (0, the initial lastScanTime, when it records none).
LastAccepted(table) ==
    IF table = <<>> THEN 0
    ELSE CHOOSE t \in {table[i].value : i \in 1..Len(table)} :
            \A i \in 1..Len(table) : table[i].value <= t

\* The texts of a cycle's results at the given places.
TextsSeen(results, places) ==
    {results[i].text : i \in {j \in 1..Len(results) : results[j].place \in places}}

\* The texts a task passed to addQRCode, and those addQRCode accepted.
Passed(log) == {log[i].text : i \in 1..Len(log)}

AcceptedTexts(log) == Passed(Accepted(log))

\* C17: in every cycle whose decode resolved, whatever else it detected, each
\* detection outside the guide is passed to addQRCode exactly when at least
\* OUT_GUIDE_COOLDOWN has passed since the last accepted detection, inside or
\* outside the guide (the cycle's own accepted detections inside the guide
\* come first).
C17_OutGuideThrottled ==
    [][last'.op = "results" =>
          LET inside == TextsSeen(last'.results, {"in"})
              outside == TextsSeen(last'.results, {"out", "none"}) \ inside
              since == IF AcceptedTexts(last'.log) \cap inside # {} THEN 0
                       ELSE now - LastAccepted(recentScans)
          IN \A x \in outside : x \in Passed(last'.log) <=> since >= OUT_GUIDE_COOLDOWN]_vars

\* The guide region a result was classified against, and the result's
\* centroid in display coordinates.
GuideOf(r) == GuideRegionOf(r.wrapper)[1]

CentroidOf(r) ==
    LET b == DisplayBounds(r.position[1], VideoScale(r.video, r.wrapper))
    IN [x |-> b.x, y |-> b.y]

\* The results of the last cycle that have a position and a guide region.
Placed == {last.results[i] : i \in {j \in 1..Len(last.results) :
                                      /\ last.results[j].position # <<>>
                                      /\ last.results[j].wrapper # <<>>}}

\* C18: in the scan pipeline a detection whose centroid, in display
\* coordinates, is exactly the guide's centre is classified as inside the
\* guide, whatever its size, and one whose centroid is at left - width is
\* classified as outside.
C18_CentroidDecides ==
    \A r \in Placed :
        /\ CentroidOf(r) = GuideOf(r).center => r.place = "in"
        /\ CentroidOf(r).x = GuideOf(r).left - GuideOf(r).width => r.place = "out"

\* The results of the cycle about to commit that were classified without a
\* position or without a guide region.
Unplaced ==
    {last'.results[i] : i \in {j \in 1..Len(last'.results) :
                                  \/ last'.results[j].position = <<>>
                                  \/ last'.results[j].wrapper = <<>>}}

C20_OneEntryPerCode ==
    /\ \A i \in 1..Len(uniqueResults) :
          /\ uniqueResults[i].key = uniqueResults[i].value.id
          /\ uniqueResults[i].value.id = Fingerprint(uniqueResults[i].value.text)
    /\ \A i, j \in 1..Len(uniqueResults) :
          i # j => /\ uniqueResults[i].value.id # uniqueResults[j].value.id
                   /\ uniqueResults[i].value.text # uniqueResults[j].value.text

\* The list holds two codes, one of them seen more than once, after a third
\* code was evicted.
C20_TwoCodesOneBumped ==
    /\ Len(uniqueResults) = 2
    /\ \E i \in 1..Len(uniqueResults) : uniqueResults[i].value.count > 1
    /\ \E k \in MapKeys(recentScans) : ~MapHas(uniqueResults, k)

\* The number of addQRCode calls of the task about to commit that returned
\* true for fingerprint h.
AcceptedCalls(h) ==
    Cardinality({k \in 1..Len(last'.log) :
                    last'.log[k].ok /\ Fingerprint(last'.log[k].text) = h})

\* The count of fingerprint h in the result list (0 when it has no entry).
CountOf(table, h) == IF MapHas(table, h) THEN MapGet(table, h).count ELSE 0

\* C21: the count of an entry is the number of addQRCode calls for its
\* fingerprint that returned true since the entry was created or since the
\* last reset, and addQRCode returns true exactly when it created or bumped an
\* entry: a cycle raises the count of each fingerprint by the number of its
\* calls that returned true and leaves that entry last seen now; a reset
\* empties the list; no other task changes it.
C21_CountIsAcceptedCalls ==
    [][IF last'.op = "results"
       THEN /\ \A h \in MapKeys(uniqueResults') \cup MapKeys(uniqueResults) \cup Added :
                  CountOf(uniqueResults', h) = CountOf(uniqueResults, h) + AcceptedCalls(h)
            /\ \A h \in Added : MapGet(uniqueResults', h).lastSeen = now
       ELSE IF last'.op = "reset"
       THEN uniqueResults' = <<>>
       ELSE UNCHANGED uniqueResults]_vars

\* After a reset an entry has been created and bumped: its count is 2.
C21_CountedAfterReset ==
    /\ clicks.reset > 0
    /\ last.op = "results"
    /\ \E i \in 1..Len(uniqueResults) :
          /\ uniqueResults[i].value.count = 2
          /\ uniqueResults[i].value.lastSeen = now

\* The addQRCode calls of the task about to commit that returned false.
RejectedTexts == {last'.log[k].text : k \in {j \in 1..Len(last'.log) : ~last'.log[j].ok}}

\* C22: the cooldown is per fingerprint: a call of addQRCode is rejected only
\* when the table of an invocation in its decode holds an entry of that
\* text's own fingerprint younger than SCAN_COOLDOWN_DURATION; entries of
\* other texts reject nothing.
C22_CooldownPerFingerprint ==
    [][last'.op = "results" =>
          \A b \in RejectedTexts :
              \E i \in 1..Len(chains) :
                  /\ chains[i].phase = "decode"
                  /\ InCooldown(chains[i].clo.recentScans, b, now)]_vars

\* One cycle saw two texts: the one in its cooldown was rejected, and the
\* other was accepted with the first one's entry in the table.
C22_OtherTextAccepted ==
    /\ last.op = "results"
    /\ Len(last.log) = 2
    /\ ~last.log[1].ok
    /\ last.log[2].ok
    /\ last.log[1].text # last.log[2].text
    /\ InCooldown(recentScans, last.log[1].text, now)
    /\ MapGet(recentScans, Fingerprint(last.log[1].text)) < now
    /\ MapGet(uniqueResults, Fingerprint(last.log[2].text)).count = 1

\* Distinct texts that have a fingerprint have distinct fingerprints.
FingerprintInjective ==
    \A a, b \in FingerprintTexts :
        (~UriThrows(a) /\ ~UriThrows(b) /\ a # b) => Fingerprint(a) # Fingerprint(b)

\* The entry of each text the task about to commit added carries that text.
EntriesCarryTheirText ==
    \A k \in 1..Len(Accepted(last'.log)) :
        LET text == Accepted(last'.log)[k].text
        IN Holds(uniqueResults', text)
              => MapGet(uniqueResults', Fingerprint(text)).text = text

\* C23: the fingerprint is defined for every text and injective: no call of
\* addQRCode ends without a fingerprint (in encodeURIComponent's URIError),
\* distinct texts have distinct fingerprints, and an accepted call creates
\* or bumps an entry of its own text.
C23_FingerprintTotalInjective ==
    [][/\ last'.op # "thrown"
       /\ FingerprintInjective
       /\ last'.op = "results" => EntriesCarryTheirText]_vars

\* C24: the list shown holds exactly the entries of the result collection,
\* each once, in descending lastSeen.
C24_ListSortedByLastSeen ==
    /\ Len(resultsList) = Len(uniqueResults)
    /\ \A i \in 1..Len(uniqueResults) :
          Cardinality({j \in 1..Len(resultsList) : resultsList[j] = uniqueResults[i].value}) = 1
    /\ \A j \in 1..Len(resultsList) :
          \E i \in 1..Len(uniqueResults) : uniqueResults[i].value = resultsList[j]
    /\ \A j \in 1..(Len(resultsList) - 1) :
          resultsList[j].lastSeen >= resultsList[j + 1].lastSeen

\* The list shown is not in the collection's order: the entry created
\* second was seen later and comes first.
C24_LaterSeenShownFirst ==
    /\ Len(uniqueResults) = 2
    /\ resultsList[1] = uniqueResults[2].value
    /\ resultsList[1].lastSeen > resultsList[2].lastSeen

ScanStamp(e) == [id |-> e.key, time |-> e.value]

\* The cooldown entries present in the task about to commit: those it
\* recorded, at now, and the others of the table that are within the TTL.
ScansPresent ==
    {ScanStamp(recentScans[i]) :
        i \in {j \in 1..Len(recentScans) :
                  /\ recentScans[j].key \notin Added
                  /\ now - recentScans[j].value <= SCAN_HISTORY_TTL}}
        \cup {[id |-> h, time |-> now] : h \in Added}

ScansKept == {ScanStamp(recentScans'[i]) : i \in 1..Len(recentScans')}

\* C25: the cooldown table never holds more than MAX_RECENT_SCANS entries;
\* an accepted addition that makes it exceed the bound evicts exactly one
\* entry, and no entry present was recorded before it; whatever a task adds,
\* the entries it evicts are those beyond the bound and none of them was
\* recorded later than an entry that stays.
C25_CooldownTableBounded ==
    [][/\ Len(recentScans') <= MAX_RECENT_SCANS
       /\ (last'.op = "results" /\ Cardinality(Added) = 1
              /\ Cardinality(ScansPresent) = MAX_RECENT_SCANS + 1) =>
             /\ Cardinality(ScansPresent \ ScansKept) = 1
             /\ \A e \in ScansPresent \ ScansKept : \A q \in ScansPresent : e.time <= q.time
       /\ (last'.op = "results" /\ Cardinality(ScansPresent) > MAX_RECENT_SCANS) =>
             /\ ScansKept \subseteq ScansPresent
             /\ Cardinality(ScansKept) = MAX_RECENT_SCANS
             /\ \A e \in ScansPresent \ ScansKept : \A q \in ScansKept : e.time <= q.time]_vars

\* The last task recorded one text in a full table, and the entry evicted
\* ("B", which an invocation still running saw recorded with "A") was not
\* the Map's first: "A" had been refreshed since.
C25_LeastRecentEvicted ==
    /\ last.op = "results"
    /\ Len(Accepted(last.log)) = 1
    /\ Len(recentScans) = MAX_RECENT_SCANS
    /\ recentScans[Len(recentScans)] = [key |-> Fingerprint(Accepted(last.log)[1].text),
                                        value |-> now]
    /\ recentScans[1].key = Fingerprint(<<65>>)
    /\ ~MapHas(recentScans, Fingerprint(<<66>>))
    /\ \E i \in 1..Len(chains) :
          LET was == chains[i].clo.recentScans
          IN /\ Len(was) = 2
             /\ was[1].key = Fingerprint(<<65>>)
             /\ was[2].key = Fingerprint(<<66>>)
             /\ was[1].value = was[2].value
             /\ was[1].value < recentScans[1].value

\* C26: the memory cleanup only removes cooldown entries: the table after it
\* is a part of the table before it, every entry it removed was recorded at
\* least SCAN_HISTORY_TTL ago, and it leaves the result list, the guide
\* state, the scan interval and the scanning flag as they were.
C26_CleanupOnlyForgets ==
    [][last'.op = "cleanup" =>
          /\ Entries(recentScans') \subseteq Entries(recentScans)
          /\ \A e \in Entries(recentScans) \ Entries(recentScans') :
                now - e.value >= SCAN_HISTORY_TTL
          /\ UNCHANGED <<uniqueResults, guideState, scanInterval, isScanning>>]_vars

\* The cleanup ran while scanning was stopped and removed the cooldown
\* entry of the text in the list, recorded more than the TTL before.
C26_CleanedWhileStopped ==
    /\ last.op = "cleanup"
    /\ ~isScanning
    /\ clicks.stop > 0
    /\ Len(uniqueResults) = 1
    /\ now - uniqueResults[1].value.lastSeen >= SCAN_HISTORY_TTL
    /\ recentScans = <<>>

\* C27: stopScanning leaves the result list and the cooldown table as they
\* were, and while scanning stays stopped the list changes only by a reset.
C27_StopKeepsList ==
    [][/\ last'.op = "stop" => UNCHANGED <<uniqueResults, recentScans>>
       /\ (~isScanning /\ ~isScanning' /\ last'.op # "reset") => UNCHANGED uniqueResults]_vars

\* C28: the delay before the next cycle is the current interval: when a cycle
\* ends, its next scanQRCodes is due after the scan interval as that cycle
\* leaves it (adjusted, or forced to the maximum by a success).
C28_NextCycleAfterCurrentInterval ==
    [][\A i \in 1..Len(chains) :
          (/\ i <= Len(chains')
           /\ chains[i].phase = "decode"
           /\ chains'[i].phase = "timer")
              => chains'[i].at = now + scanInterval']_vars

\* C29: during the GRACE_PERIOD that follows the most recent accepted
\* detection inside the guide (lastScanTime is its time) the scan interval
\* stays at SCAN_INTERVAL_MAX.
C29_HeldAtMaximumInGrace ==
    (lastScanTime >= PageLoadTime /\ now - lastScanTime < GRACE_PERIOD)
        => scanInterval = SCAN_INTERVAL_MAX

\* The task about to commit is a cycle that accepted a detection inside the
\* guide: it set the interval to SCAN_INTERVAL_MAX before its adjustment.
CycleSucceeds ==
    /\ last'.op = "results"
    /\ TextsAt(last'.results, {"in"}) # <<>>
    /\ Accepted(last'.log) # <<>>

\* C30: every cycle adjusts the interval by its processing time: over 100 ms
\* to min(interval + 50, 500), under 50 ms to max(interval - 25, 100), and
\* from 50 to 100 ms inclusive it leaves it; the interval adjusted is the one
\* the cycle found, or the maximum if the cycle set it on a success.
C30_AdjustedByLatency ==
    [][last'.op \in {"results", "timeout", "failure"} =>
          LET found == IF CycleSucceeds THEN SCAN_INTERVAL_MAX ELSE scanInterval
          IN scanInterval' =
                IF last'.pt > 100 THEN Min(found + 50, 500)
                ELSE IF last'.pt < 50 THEN Max(found - 25, 100)
                ELSE found]_vars

\* A cycle that took exactly 100 ms has left the interval at 250, where a
\* slower cycle had put it.
C30_BoundaryLeavesInterval ==
    /\ last.op = "results"
    /\ last.pt = 100
    /\ scanInterval = 250
    /\ \E i \in 1..Len(chains) :
          /\ chains[i].phase = "timer"
          /\ chains[i].clo.scanInterval = 250
          /\ chains[i].at = now + 250

\* C31: the guide state becomes success only in a cycle that accepted a
\* detection inside the guide; a cycle whose detections were all rejected or
\* all outside the guide starts no success display: it leaves the guide
\* state or ends a success, and leaves lastScanTime and the timers alone.
C31_SuccessOnlyOnAcceptedInGuide ==
    [][/\ (guideState' = "success" /\ guideState # "success") => CycleSucceeds
       /\ (last'.op = "results" /\ ~CycleSucceeds) =>
             /\ guideState' \in {guideState, "scanning"}
             /\ UNCHANGED <<lastScanTime, timers>>]_vars

\* The last cycle saw "A" inside the guide and addQRCode rejected it; "B",
\* seen outside the guide only, is in the list; the only success display is
\* the one of the cycle that accepted "A", a clock step earlier.
C31_RejectedInGuideNoSuccess ==
    /\ last.op = "results"
    /\ TextsSeen(last.results, {"in"}) = {<<65>>}
    /\ last.log # NoLog
    /\ Accepted(last.log) = <<>>
    /\ Holds(uniqueResults, <<66>>)
    /\ MapGet(uniqueResults, Fingerprint(<<66>>)).lastSeen <= lastScanTime
    /\ lastScanTime < now
    /\ Timer("revertGuide", now + SUCCESS_DISPLAY) \notin timers

\* C32: after resetList the cooldown decision uses the emptied table: the
\* first call of addQRCode for a text since the reset (neither table holds
\* the text) is accepted and creates an entry with count 1, also in a cycle
\* that was running at the reset.
C32_FirstAfterResetAccepted ==
    [][(/\ last'.op = "results"
        /\ last'.log # NoLog
        /\ clicks.reset > 0
        /\ ~Holds(recentScans, last'.log[1].text)
        /\ ~Holds(uniqueResults, last'.log[1].text))
          => /\ last'.log[1].ok
             /\ Holds(uniqueResults', last'.log[1].text)
             /\ CountOf(uniqueResults', Fingerprint(last'.log[1].text)) = 1]_vars

\* The centroid of a result in the sampled image, the centre of that image
\* and the centre of the display container.
SampledCentroidOf(r) ==
    LET points == r.position[1]
    IN [x |-> (points.topLeft.x + points.topRight.x + points.bottomLeft.x
                  + points.bottomRight.x) \div 4,
        y |-> (points.topLeft.y + points.topRight.y + points.bottomLeft.y
                  + points.bottomRight.y) \div 4]

SampledCentreOf(r) ==
    [x |-> Canvas(r.video).width \div 2, y |-> Canvas(r.video).height \div 2]

ContainerCentreOf(r) ==
    [x |-> r.wrapper[1].clientWidth \div 2, y |-> r.wrapper[1].clientHeight \div 2]

\* C33: a code whose centroid is at the centre of the sampled image is taken
\* to the centre of the display container, and is classified as inside the
\* guide.
C33_SampledCentreIsDisplayCentre ==
    \A r \in Placed :
        SampledCentroidOf(r) = SampledCentreOf(r)
            => /\ CentroidOf(r) = ContainerCentreOf(r)
               /\ r.place = "in"

\* A timer that reverts the guide state is pending and not yet due.  While
\* the guide state is error this says that less than ERROR_DISPLAY has
\* passed since the latest error: either that error's own timer is pending,
\* or the timer of a success that came before it, which is due sooner.
RevertNotYetDue == \E tm \in timers : tm.kind = "revertGuide" /\ tm.at > now

\* C34: an error is on display for ERROR_DISPLAY: the guide state leaves
\* error only when ERROR_DISPLAY has passed since the latest error, or when
\* scanning is stopped; the timer of an earlier success or error does not end
\* the display early.
C34_ErrorShownInFull ==
    [][(guideState = "error" /\ guideState' # "error" /\ last'.op # "stop")
          => ~RevertNotYetDue]_vars

\* No step but a reset, or an add to a full table, removes a cooldown entry
\* younger than SCAN_COOLDOWN_DURATION.
YoungEntriesStay ==
    (last'.reset \/ Len(recentScans) >= MAX_RECENT_SCANS)
        \/ \A e \in Entries(recentScans) :
               now - e.value < SCAN_COOLDOWN_DURATION => MapHas(recentScans', e.key)

\* No call of the cycle about to commit was accepted for a text whose entry
\* in the cooldown table is younger than SCAN_COOLDOWN_DURATION.
NoneAcceptedInCooldown ==
    \A k \in 1..Len(last'.log) :
        last'.log[k].ok => ~InCooldown(recentScans, last'.log[k].text, now)

\* C35: the purge inside addQRCode and the periodic cleanup never remove an
\* entry that is younger than SCAN_COOLDOWN_DURATION, and a text is accepted
\* again before its cooldown has passed only when its entry is gone from the
\* cooldown table (by a capacity eviction or a reset).
C35_CooldownOutlivesRemoval ==
    [][/\ YoungEntriesStay
       /\ last'.op = "results" => NoneAcceptedInCooldown]_vars
====
